---------------------------- MODULE Spec2Model ----------------------------
(***************************************************************************)
(* Prisma-Saude: the cleaning pipeline of scripts/agent.py and the load    *)
(* of scripts/sql_inserter.py, and the persistence of both into            *)
(* SaudeDev.app.Atendimentos.                                              *)
(*                                                                         *)
(* Spec      : the persistence gateway (sql_inserter.main and              *)
(*             agent.persist_to_sql_merge called by fluxo_atualizar_tudo), *)
(*             statement by statement inside its transaction.              *)
(* Pipeline  : the input files through load_all_data, normalize_and_clean, *)
(*             apply_filters, remove_duplicates and the rows built for     *)
(*             persistence (agent.py), and through sql_inserter.main's     *)
(*             reading of the same files.                                  *)
(* Analytics : load_dim_clientes, merge_dim and compute_percentile_flag    *)
(*             over the deduplicated frame (agent.py).                     *)
(***************************************************************************)
EXTENDS Integers, Sequences, FiniteSets, TLC

(***************************************************************************)
(* Bounds of the model.                                                    *)
(***************************************************************************)
\* longest batch handed to the persistence gateway
MaxBatch == 2
\* most rows the store holds before the first run
MaxStore == 2
\* most rows of the input files, rows that vary every column
MaxRaw == 2
\* most rows of the input files, rows that vary the natural key
MaxRecs == 3
\* most rows of dim_clientes.csv
MaxDim == 2
\* most records of a frame that varies the customer
MaxFrame == 2
\* most records of a frame that varies the revenue
MaxRev == 3
\* most records of a frame whose revenues are 10, 20, 30, ...
MaxLadder == 10

(***************************************************************************)
(* The durable table and the batch.                                        *)
(* key : the natural key (Data, ClienteId, Procedimento)                   *)
(* val : the non-key attributes (Operadora, Categoria, Qtde,               *)
(*       PrecoUnitario, Receita)                                           *)
(* ld  : LoadDate                                                          *)
(***************************************************************************)
Keys == {"k1", "k2"}
Vals == {"v1", "v2"}
BatchRows == [key : Keys, val : Vals]

RECURSIVE SeqsUpTo(_, _)
SeqsUpTo(S, n) ==
  IF n = 0 THEN {<<>>}
  ELSE LET shorter == SeqsUpTo(S, n - 1)
       IN  shorter \cup {Append(s, x) : s \in {t \in shorter : Len(t) = n - 1}, x \in S}

Batches == SeqsUpTo(BatchRows, MaxBatch)

VARIABLES
  committed,       \* SaudeDev.app.Atendimentos as every other session sees it
  working,         \* SaudeDev.app.Atendimentos as the open transaction sees it
  tmp_at,          \* #tmp_at
  now,             \* SYSDATETIME(), one tick per run
  spExists,        \* app.sp_UpsertAtendimentos is in sys.objects
  uniqueKey,       \* the table has a unique index on the natural key
  pc,              \* the statement the current run is at
  caller,          \* "inserter" (sql_inserter.main) | "agent" (fluxo_atualizar_tudo)
  mode,            \* "append" | "truncate" | "merge"
  batch,           \* records / rows
  pos,             \* next row of executemany
  before,          \* committed when the run began
  outcome,         \* "none" | "skipped" | "committed" | "rolledback"
  cause,           \* what raised: "none" | "fault" | "dupkey" | "multimatch" | "nosp"
  failedAt,        \* pc at which the exception was raised
  exitcode,        \* exit status of the finished run
  persistidos_sql, \* meta["persistidos_sql"] of the last update_workbook
  rerun,           \* this run repeats the run before it: same command, same input
  firstOutcome,    \* the outcome of the run that a rerun repeats
  modeNamed,       \* --mode or sql.load_mode named the mode of the run
  files,           \* the rows of sigsaude/a.csv and sigsaude/b.csv, in path order
  cfg,             \* config.yaml: periodo_inicio, periodo_fim
  flow,            \* "agent" (fluxo_atualizar_tudo) | "inserter" (sql_inserter.main)
  ppc,             \* the step of the flow that ran last
  order,           \* the order in which glob returned the files
  raw,             \* the concatenated rows read
  df,              \* the data frame of fluxo_atualizar_tudo
  metrics,         \* the metrics of normalize_and_clean
  dups,            \* duplicates removed
  lidas,           \* rows read by sql_inserter.main
  records,         \* the rows handed to the persistence gateway
  dim_csv,         \* the rows of dim_clientes.csv, in file order
  dim,             \* the frame of load_dim_clientes
  base,            \* the frame merge_dim is given
  enr,             \* the frame merge_dim returns
  p90,             \* the percentile compute_percentile_flag returns, in tenths
  alto,            \* the frame compute_percentile_flag returns
  apc              \* the step of the analytics that ran last

dbVars == <<committed, working, tmp_at>>
envVars == <<spExists, uniqueKey>>
runVars == <<now, caller, mode, batch, before, rerun, firstOutcome, modeNamed>>
resVars == <<outcome, cause, failedAt, exitcode, persistidos_sql>>
gateVars == <<dbVars, envVars, runVars, resVars, pc, pos>>
pipeVars == <<files, cfg, flow, ppc, order, raw, df, metrics, dups, lidas, records>>
anaVars == <<dim_csv, dim, base, enr, p90, alto, apc>>
vars == <<gateVars, pipeVars, anaVars>>

(***************************************************************************)
(* Statements                                                              *)
(***************************************************************************)
Stamp(r, t) == [key |-> r.key, val |-> r.val, ld |-> t]

HasKey(t, k) == \E i \in DOMAIN t : t[i].key = k

KeysDistinct(s) == \A i, j \in DOMAIN s : s[i].key = s[j].key => i = j

\* every statement commits on its own
autocommit_on == TRUE

\* conn.autocommit = False
autocommit == FALSE

\* what a statement leaves durable: nothing before commit unless autocommit
Durable(c, w) == IF autocommit THEN w ELSE c

\* MERGE ... USING #tmp_at ON the natural key: a target row matched by more
\* than one source row ends the statement with error 8672
MatchCount(k, s) == Cardinality({j \in DOMAIN s : s[j].key = k})

MergeMultiMatch(t, s) == \E i \in DOMAIN t : MatchCount(t[i].key, s) > 1

SourceFor(k, s) == s[CHOOSE j \in DOMAIN s : s[j].key = k]

\* an UPDATE that also refreshes LoadDate of the rows no staged row matches
UpdateEveryRow(t, s, ts) ==
  [i \in DOMAIN t |->
     IF HasKey(s, t[i].key) THEN Stamp(SourceFor(t[i].key, s), ts) ELSE Stamp(t[i], ts)]

\* WHEN MATCHED THEN UPDATE SET ... LoadDate = SYSDATETIME()
WhenMatched(t, s, ts) ==
  [i \in DOMAIN t |->
     IF HasKey(s, t[i].key) THEN Stamp(SourceFor(t[i].key, s), ts) ELSE t[i]]

\* WHEN NOT MATCHED BY TARGET THEN INSERT ... SYSDATETIME()
RECURSIVE StampAll(_, _)
StampAll(s, ts) ==
  IF s = <<>> THEN <<>> ELSE <<Stamp(Head(s), ts)>> \o StampAll(Tail(s), ts)

WhenNotMatched(t, s, ts) ==
  StampAll(SelectSeq(s, LAMBDA r : ~HasKey(t, r.key)), ts)

\* a MERGE whose ON never matches: every staged row is inserted
MERGE_insert_only(t, s, ts) ==
  IF uniqueKey /\ (~KeysDistinct(s) \/ \E i \in DOMAIN s : HasKey(t, s[i].key))
  THEN [ok |-> FALSE, err |-> "dupkey", table |-> t]
  ELSE [ok |-> TRUE, err |-> "none", table |-> t \o StampAll(s, ts)]

MERGE_FALLBACK_SQL(t, s, ts) ==
  IF MergeMultiMatch(t, s)
  THEN [ok |-> FALSE, err |-> "multimatch", table |-> t]
  ELSE IF uniqueKey /\ ~KeysDistinct(WhenNotMatched(t, s, ts))
  THEN [ok |-> FALSE, err |-> "dupkey", table |-> t]
  ELSE [ok |-> TRUE, err |-> "none",
        table |-> WhenMatched(t, s, ts) \o WhenNotMatched(t, s, ts)]

\* EXEC app.sp_UpsertAtendimentos: the routine is not part of the sources; the
\* specification gives it as the same match/update/insert over #tmp_at
sp_UpsertAtendimentos(t, s, ts) ==
  IF MergeMultiMatch(t, s)
  THEN [ok |-> FALSE, err |-> "multimatch", table |-> t]
  ELSE IF uniqueKey /\ ~KeysDistinct(WhenNotMatched(t, s, ts))
  THEN [ok |-> FALSE, err |-> "dupkey", table |-> t]
  ELSE [ok |-> TRUE, err |-> "none",
        table |-> WhenMatched(t, s, ts) \o WhenNotMatched(t, s, ts)]

\* sp_exists(cur, "app", "sp_UpsertAtendimentos")
sp_exists == spExists

\* mode = (args.mode or sql_cfg.get("load_mode") or "append").lower()
Modes == {"append", "truncate", "merge"}
ChooseMode(argMode, cfgMode) ==
  IF argMode # "none" THEN argMode
  ELSE IF cfgMode # "none" THEN cfgMode
  ELSE "append"

(***************************************************************************)
(* Init: a store that earlier loads left, nothing running.                 *)
(***************************************************************************)
InitStores(unique) ==
  {StampAll(s, 0) : s \in {t \in SeqsUpTo(BatchRows, MaxStore) : unique => KeysDistinct(t)}}

(***************************************************************************)
(* The cells of the input files.                                           *)
(* A date cell is its separator and its three numbers in the order written;*)
(* a number cell is a numeric text, a non-numeric text, "NA" or empty; a   *)
(* text cell is its text and whether blanks surround it.                   *)
(* Operadora, Categoria and UF are carried through unread and left out.    *)
(***************************************************************************)
Dash(a, b, c) == [k |-> "dash", a |-> a, b |-> b, c |-> c]
Slash(a, b, c) == [k |-> "slash", a |-> a, b |-> b, c |-> c]
EmptyDate == [k |-> "empty", a |-> 0, b |-> 0, c |-> 0]

Num(n) == [k |-> "num", n |-> n]
NonNumeric == [k |-> "text", n |-> 0]
NA == [k |-> "NA", n |-> 0]
Empty == [k |-> "empty", n |-> 0]

Text(t) == [s |-> t, ws |-> FALSE]

\* a parsed date, or NaT / None
NaT == [na |-> TRUE, y |-> 0, m |-> 0, d |-> 0]
Day(y, mo, d) == [na |-> FALSE, y |-> y, m |-> mo, d |-> d]

\* a parsed number, or NaN
NaN == [na |-> TRUE, n |-> 0]
Val(n) == [na |-> FALSE, n |-> n]

LeapYear(y) == (y % 4 = 0 /\ y % 100 # 0) \/ y % 400 = 0
DaysIn(y, mo) ==
  IF mo \in {4, 6, 9, 11} THEN 30
  ELSE IF mo = 2 THEN (IF LeapYear(y) THEN 29 ELSE 28)
  ELSE 31

\* a calendar that lets every month run to 31 days
AnyDayTo31(y, mo, d) == y \in 1..9999 /\ mo \in 1..12 /\ d \in 1..31

\* datetime rejects what is no day of the calendar
IsCalendarDay(y, mo, d) == y \in 1..9999 /\ mo \in 1..12 /\ d \in 1..DaysIn(y, mo)
\* %Y takes four digits
FourDigits(n) == n \in 1000..9999

\* to_date: "%Y-%m-%d", then "%d/%m/%Y", then "%Y/%m/%d", else None
to_date(v) ==
  IF v.k = "dash" /\ FourDigits(v.a) /\ IsCalendarDay(v.a, v.b, v.c)
  THEN Day(v.a, v.b, v.c)
  ELSE IF v.k = "slash" /\ FourDigits(v.c) /\ IsCalendarDay(v.c, v.b, v.a)
  THEN Day(v.c, v.b, v.a)
  ELSE IF v.k = "slash" /\ FourDigits(v.a) /\ IsCalendarDay(v.a, v.b, v.c)
  THEN Day(v.a, v.b, v.c)
  ELSE NaT

\* pd.to_datetime(..., errors="coerce") of one cell: ISO for a dashed date;
\* for a slashed one the year first when it leads, else month first, else day
\* first; NaT when no reading is a day of the calendar
pd_to_datetime(v) ==
  IF v.k = "dash" /\ IsCalendarDay(v.a, v.b, v.c) THEN Day(v.a, v.b, v.c)
  ELSE IF v.k = "slash" /\ v.a > 31 /\ IsCalendarDay(v.a, v.b, v.c)
  THEN Day(v.a, v.b, v.c)
  ELSE IF v.k = "slash" /\ v.a <= 31 /\ IsCalendarDay(v.c, v.a, v.b)
  THEN Day(v.c, v.a, v.b)
  ELSE IF v.k = "slash" /\ v.a <= 31 /\ IsCalendarDay(v.c, v.b, v.a)
  THEN Day(v.c, v.b, v.a)
  ELSE NaT

\* pd.to_numeric(..., errors="coerce") of one cell
pd_to_numeric(v) == IF v.k = "num" THEN Val(v.n) ELSE NaN

\* to_float: 0.0 for None, "", "NA", "NaN" and for what float() rejects
to_float(v) == IF v.k = "num" THEN v.n ELSE 0

\* to_int: 0 for what int(float()) rejects
to_int(v) == IF v.k = "num" THEN v.n ELSE 0

\* max(0, x)
max0(x) == IF x > 0 THEN x ELSE 0

\* .fillna(0)
fillna0(v) == IF v.na THEN 0 ELSE v.n

\* .str.strip() / .strip()
strip(t) == [s |-> t.s, ws |-> FALSE]

Indices(q) == [i \in 1..Len(q) |-> i]

RECURSIVE MapSeq(_, _)
MapSeq(F(_), q) == IF q = <<>> THEN <<>> ELSE <<F(Head(q))>> \o MapSeq(F, Tail(q))

(***************************************************************************)
(* agent.py                                                                *)
(***************************************************************************)
NoMetrics == [invalid_dates |-> 0, neg_qtde |-> 0, neg_preco |-> 0]

\* pd.concat(frames, ignore_index=True), frames in the order of glob
RECURSIVE Concat(_, _)
Concat(fs, ord) ==
  IF ord = <<>> THEN <<>> ELSE fs[Head(ord)] \o Concat(fs, Tail(ord))

\* negativos -> 0
clamp_keep(v) == v

clamp(v) == IF ~v.na /\ v.n < 0 THEN Val(0) ELSE v

\* one surviving row of normalize_and_clean; idx is the label of the row in
\* the frame's index
CleanRow(r, i) ==
  LET q == clamp(pd_to_numeric(r.Qtde))
      p == clamp(pd_to_numeric(r.PrecoUnitario))
      rec == pd_to_numeric(r.Receita)
  IN  [idx |-> i,
       Data |-> pd_to_datetime(r.Data),
       ClienteId |-> strip(r.ClienteId),
       Procedimento |-> strip(r.Procedimento),
       Qtde |-> q,
       PrecoUnitario |-> p,
       Receita |-> IF rec.na THEN Val(fillna0(q) * fillna0(p)) ELSE rec]

IsNegative(v) == pd_to_numeric(v).na = FALSE /\ pd_to_numeric(v).n < 0

normalize_and_clean(rw) ==
  LET s == [i \in DOMAIN rw |-> pd_to_datetime(rw[i].Data)]
      kept == SelectSeq(Indices(rw), LAMBDA i : ~s[i].na)
      row(i) == CleanRow(rw[i], i)
  IN  [df |-> MapSeq(row, kept),
       metrics |->
         [invalid_dates |-> Cardinality({i \in DOMAIN rw : s[i].na}),
          neg_qtde |-> Cardinality({j \in DOMAIN kept : IsNegative(rw[kept[j]].Qtde)}),
          neg_preco |->
            Cardinality({j \in DOMAIN kept : IsNegative(rw[kept[j]].PrecoUnitario)})]]

\* dates compare as (year, month, day)
DateLE(x, y) ==
  \/ x.y < y.y
  \/ x.y = y.y /\ x.m < y.m
  \/ x.y = y.y /\ x.m = y.m /\ x.d <= y.d

NoFilter == [periodo_inicio |-> NaT, periodo_fim |-> NaT]

\* apply_filters: the period, both ends optional; uf_incluir and
\* categoria_incluir are empty
apply_filters(frame, c) ==
  SelectSeq(frame, LAMBDA r :
    /\ c.periodo_inicio.na \/ DateLE(c.periodo_inicio, r.Data)
    /\ c.periodo_fim.na \/ DateLE(r.Data, c.periodo_fim))

SameKey(x, y) ==
  x.Data = y.Data /\ x.ClienteId = y.ClienteId /\ x.Procedimento = y.Procedimento

\* drop_duplicates(..., keep="first")
keep_first(frame) ==
  LET kept == SelectSeq(Indices(frame), LAMBDA i :
                ~\E j \in DOMAIN frame : j < i /\ SameKey(frame[i], frame[j]))
      pick(i) == frame[i]
  IN  [df |-> MapSeq(pick, kept), removed |-> Len(frame) - Len(kept)]

\* a pass that drops the first row of every key that occurs more than once
drop_one_per_key(frame) ==
  LET kept == SelectSeq(Indices(frame), LAMBDA i :
                \/ \E j \in DOMAIN frame : j < i /\ SameKey(frame[i], frame[j])
                \/ ~\E j \in DOMAIN frame : j > i /\ SameKey(frame[i], frame[j]))
      pick(i) == frame[i]
  IN  [df |-> MapSeq(pick, kept), removed |-> Len(frame) - Len(kept)]

\* remove_duplicates: drop_duplicates(subset=[Data, ClienteId, Procedimento],
\* keep="last") and the number of rows dropped
remove_duplicates(frame) ==
  LET kept == SelectSeq(Indices(frame), LAMBDA i :
                ~\E j \in DOMAIN frame : j > i /\ SameKey(frame[i], frame[j]))
      pick(i) == frame[i]
  IN  [df |-> MapSeq(pick, kept), removed |-> Len(frame) - Len(kept)]

\* persist_to_sql_merge: dfx of COLS_SQL, Qtde as int with 0 for NaN,
\* PrecoUnitario and Receita with 0.0 for NaN
SqlRow(r) ==
  [Data |-> r.Data, ClienteId |-> r.ClienteId, Procedimento |-> r.Procedimento,
   Qtde |-> fillna0(r.Qtde), PrecoUnitario |-> fillna0(r.PrecoUnitario),
   Receita |-> fillna0(r.Receita)]

persist_rows(frame) == MapSeq(SqlRow, frame)

(***************************************************************************)
(* sql_inserter.py                                                         *)
(***************************************************************************)
ReceitaAbsent(v) == v.k \in {"empty", "NA"}

\* main: one record of a row whose date parsed
Record(r) ==
  LET qtde == max0(to_int(r.Qtde))
      pu == max0(to_float(r.PrecoUnitario))
  IN  [Data |-> to_date(r.Data),
       ClienteId |-> strip(r.ClienteId),
       Procedimento |-> strip(r.Procedimento),
       Qtde |-> qtde,
       PrecoUnitario |-> pu,
       Receita |-> IF ReceitaAbsent(r.Receita) THEN qtde * pu ELSE to_float(r.Receita)]

\* main: the loop over the rows read
main_records(rw) == MapSeq(Record, SelectSeq(rw, LAMBDA r : ~to_date(r.Data).na))

\* no flow of the pipeline is running
PipeOff ==
  /\ files = <<>>
  /\ cfg = NoFilter
  /\ flow = "none"
  /\ ppc = "off"
  /\ order = <<>>
  /\ raw = <<>>
  /\ df = <<>>
  /\ metrics = NoMetrics
  /\ dups = 0
  /\ lidas = 0
  /\ records = <<>>

\* no analytics is running
AnaOff ==
  /\ dim_csv = <<>>
  /\ dim = <<>>
  /\ base = <<>>
  /\ enr = <<>>
  /\ p90 = 0
  /\ alto = <<>>
  /\ apc = "off"

Init ==
  /\ PipeOff
  /\ AnaOff
  /\ spExists \in BOOLEAN
  /\ uniqueKey \in BOOLEAN
  /\ committed \in InitStores(uniqueKey)
  /\ working = committed
  /\ tmp_at = <<>>
  /\ now = 1
  /\ pc = "idle"
  /\ caller = "none"
  /\ mode = "none"
  /\ batch = <<>>
  /\ pos = 1
  /\ before = committed
  /\ outcome = "none"
  /\ cause = "none"
  /\ failedAt = "none"
  /\ exitcode = 0
  /\ persistidos_sql = 0
  /\ rerun = FALSE
  /\ firstOutcome = "none"
  /\ modeNamed = FALSE

\* the first statement of a mode's transaction
FirstStatement(m) ==
  IF m = "merge" THEN "create_tmp" ELSE IF m = "truncate" THEN "truncate" ELSE "insert"

\* a run that ends without opening a connection
EndWithoutRun(code) ==
  /\ pc' = "done"
  /\ outcome' = "skipped"
  /\ exitcode' = code
  /\ persistidos_sql' = 0
  /\ UNCHANGED <<dbVars, pos, cause, failedAt>>

\* with pyodbc.connect(cs) as conn: conn.autocommit = False
Connect(first) ==
  /\ pc' = first
  /\ outcome' = "none"
  /\ working' = committed
  /\ pos' = 1
  /\ cause' = "none"
  /\ failedAt' = "none"
  /\ exitcode' = 0
  /\ persistidos_sql' = 0
  /\ UNCHANGED <<committed, tmp_at>>

\* sql_inserter.main up to the connection
main_start ==
  /\ UNCHANGED <<pipeVars, anaVars>>
  /\ pc = "idle"
  /\ \E argMode \in Modes \cup {"none"}, cfgMode \in Modes \cup {"none"},
        enable \in BOOLEAN, recs \in Batches :
       /\ caller' = "inserter"
       /\ mode' = ChooseMode(argMode, cfgMode)
       /\ modeNamed' = (argMode # "none" \/ cfgMode # "none")
       /\ batch' = recs
       /\ before' = committed
       /\ IF ~enable THEN EndWithoutRun(1)
          ELSE IF recs = <<>> THEN EndWithoutRun(0)
          ELSE Connect(FirstStatement(ChooseMode(argMode, cfgMode)))
  /\ UNCHANGED <<now, envVars, rerun, firstOutcome>>

\* fluxo_atualizar_tudo: the first update_workbook (persistidos_sql = 0), then
\* persist_to_sql_merge up to the connection
fluxo_persist_start ==
  /\ UNCHANGED <<pipeVars, anaVars>>
  /\ pc = "idle"
  /\ \E pyodbcAvailable \in BOOLEAN, enable \in BOOLEAN, rows \in Batches :
       /\ caller' = "agent"
       /\ mode' = "merge"
       /\ modeNamed' = FALSE
       /\ batch' = rows
       /\ before' = committed
       /\ IF ~pyodbcAvailable \/ ~enable \/ rows = <<>> THEN EndWithoutRun(0)
          ELSE Connect("create_tmp")
  /\ UNCHANGED <<now, envVars, rerun, firstOutcome>>

\* an except branch that reports the staged rows as persisted
RaiseCounting(why) ==
  /\ working' = committed
  /\ outcome' = "rolledback"
  /\ cause' = why
  /\ failedAt' = pc
  /\ pc' = "done"
  /\ exitcode' = IF caller = "inserter" THEN 1 ELSE 0
  /\ persistidos_sql' = IF caller = "agent" THEN Len(batch) ELSE 0
  /\ UNCHANGED <<committed, tmp_at, envVars, runVars, pos>>

\* the except branch: conn.rollback(), then raise. sql_inserter.main lets the
\* exception out (exit status 1); fluxo_atualizar_tudo catches it and passes,
\* writes the audit sheet with persistidos_sql as it was, and ends normally
Raise(why) ==
  /\ working' = committed
  /\ outcome' = "rolledback"
  /\ cause' = why
  /\ failedAt' = pc
  /\ pc' = "done"
  /\ exitcode' = IF caller = "inserter" THEN 1 ELSE 0
  /\ UNCHANGED <<committed, tmp_at, envVars, runVars, pos, persistidos_sql>>

\* any statement can fail for a reason of the server or the connection
InTransaction ==
  pc \in {"truncate", "insert", "create_tmp", "stage", "probe", "exec_sp", "exec_merge",
          "commit"}

fault ==
  /\ UNCHANGED <<pipeVars, anaVars>>
  /\ InTransaction
  /\ Raise("fault")

\* TRUNCATE TABLE SaudeDev.app.Atendimentos
persist_truncate_then_append ==
  /\ UNCHANGED <<pipeVars, anaVars>>
  /\ pc = "truncate"
  /\ working' = <<>>
  /\ committed' = Durable(committed, working')
  /\ pc' = "insert"
  /\ UNCHANGED <<tmp_at, envVars, runVars, resVars, pos>>

\* persist_append: executemany INSERT INTO SaudeDev.app.Atendimentos, one row
\* of the parameter array at a time; LoadDate is left to the column default,
\* taken to be the time of the load
persist_append ==
  /\ UNCHANGED <<pipeVars, anaVars>>
  /\ pc = "insert"
  /\ IF pos > Len(batch)
     THEN /\ pc' = "commit"
          /\ UNCHANGED <<dbVars, envVars, runVars, resVars, pos>>
     ELSE IF uniqueKey /\ HasKey(working, batch[pos].key)
     THEN Raise("dupkey")
     ELSE /\ working' = Append(working, Stamp(batch[pos], now))
          /\ committed' = Durable(committed, working')
          /\ pos' = pos + 1
          /\ UNCHANGED <<tmp_at, envVars, runVars, resVars, pc>>

\* TMP_TABLE_SQL: drop #tmp_at if there, create it
TMP_TABLE_SQL ==
  /\ UNCHANGED <<pipeVars, anaVars>>
  /\ pc = "create_tmp"
  /\ tmp_at' = <<>>
  /\ pc' = "stage"
  /\ UNCHANGED <<committed, working, envVars, runVars, resVars, pos>>

\* executemany INSERT INTO #tmp_at; then sql_inserter.persist_merge probes for
\* the routine, and agent.persist_to_sql_merge goes straight to EXEC
stage_rows ==
  /\ UNCHANGED <<pipeVars, anaVars>>
  /\ pc = "stage"
  /\ IF pos > Len(batch)
     THEN /\ pc' = IF caller = "inserter" THEN "probe" ELSE "exec_sp"
          /\ UNCHANGED <<tmp_at, pos>>
     ELSE /\ tmp_at' = Append(tmp_at, batch[pos])
          /\ pos' = pos + 1
          /\ UNCHANGED pc
  /\ UNCHANGED <<committed, working, envVars, runVars, resVars>>

\* if sp_exists(cur, "app", "sp_UpsertAtendimentos")
probe ==
  /\ UNCHANGED <<pipeVars, anaVars>>
  /\ pc = "probe"
  /\ pc' = IF sp_exists THEN "exec_sp" ELSE "exec_merge"
  /\ UNCHANGED <<dbVars, envVars, runVars, resVars, pos>>

Applied(res) ==
  /\ working' = res.table
  /\ committed' = Durable(committed, working')
  /\ pc' = "commit"
  /\ UNCHANGED <<tmp_at, envVars, runVars, resVars, pos>>

\* cur.execute("EXEC app.sp_UpsertAtendimentos;")
exec_sp ==
  /\ UNCHANGED <<pipeVars, anaVars>>
  /\ pc = "exec_sp"
  /\ IF ~spExists THEN Raise("nosp")
     ELSE LET res == sp_UpsertAtendimentos(working, tmp_at, now)
          IN  IF res.ok THEN Applied(res) ELSE Raise(res.err)

\* cur.execute(MERGE_FALLBACK_SQL)
exec_merge ==
  /\ UNCHANGED <<pipeVars, anaVars>>
  /\ pc = "exec_merge"
  /\ LET res == MERGE_FALLBACK_SQL(working, tmp_at, now)
     IN  IF res.ok THEN Applied(res) ELSE Raise(res.err)

\* conn.commit(). main prints OK and ends; persist_to_sql_merge returns
\* len(rows), which fluxo_atualizar_tudo writes to the audit sheet
commit ==
  /\ UNCHANGED <<pipeVars, anaVars>>
  /\ pc = "commit"
  /\ committed' = working
  /\ outcome' = "committed"
  /\ exitcode' = 0
  /\ persistidos_sql' = IF caller = "agent" THEN Len(batch) ELSE 0
  /\ pc' = "done"
  /\ UNCHANGED <<working, tmp_at, envVars, runVars, cause, failedAt, pos>>

\* the same command is run again on the same input files: the process ended,
\* its connection closed and #tmp_at went with it
run_again ==
  /\ UNCHANGED <<pipeVars, anaVars>>
  /\ pc = "done"
  /\ ~rerun
  /\ outcome # "skipped"
  /\ rerun' = TRUE
  /\ firstOutcome' = outcome
  /\ now' = now + 1
  /\ before' = committed
  /\ pc' = FirstStatement(mode)
  /\ outcome' = "none"
  /\ working' = committed
  /\ tmp_at' = <<>>
  /\ pos' = 1
  /\ cause' = "none"
  /\ failedAt' = "none"
  /\ exitcode' = 0
  /\ persistidos_sql' = 0
  /\ UNCHANGED <<committed, envVars, caller, mode, batch, modeNamed>>

Next ==
  \/ main_start
  \/ fluxo_persist_start
  \/ fault
  \/ persist_truncate_then_append
  \/ persist_append
  \/ TMP_TABLE_SQL
  \/ stage_rows
  \/ probe
  \/ exec_sp
  \/ exec_merge
  \/ commit
  \/ run_again

Spec == Init /\ [][Next]_vars

(***************************************************************************)
(* Pipeline: the flows over the input files                                *)
(***************************************************************************)
\* rows that vary the date with the quantity and the price, and rows of a
\* valid date that vary the quantity, the price and the revenue
RichRows ==
  {[Data |-> d, ClienteId |-> Text("C1"), Procedimento |-> Text("ProcA"),
    Qtde |-> qp[1], PrecoUnitario |-> qp[2], Receita |-> Empty] :
     d \in {Dash(2024, 1, 5), Slash(31, 2, 2024), EmptyDate},
     qp \in {<<Num(3), Num(10)>>, <<Num(-5), Num(-1)>>, <<NonNumeric, Empty>>}}
  \cup
  {[Data |-> Dash(2024, 1, 5), ClienteId |-> Text("C1"), Procedimento |-> Text("ProcA"),
    Qtde |-> q, PrecoUnitario |-> pu, Receita |-> rc] :
     q \in {Num(3), Num(-5), NonNumeric},
     pu \in {Num(10), Num(-1), Empty},
     rc \in {Empty, NonNumeric, Num(7)}}

\* rows that vary the natural key and the quantity
KeyRows ==
  {[Data |-> d, ClienteId |-> Text("C1"), Procedimento |-> Text("ProcA"),
    Qtde |-> q, PrecoUnitario |-> Num(10), Receita |-> Empty] :
     d \in {Dash(2024, 1, 5), Dash(2024, 1, 6), Slash(31, 2, 2024)},
     q \in {Num(2), Num(3)}}

From(d) == [periodo_inicio |-> d, periodo_fim |-> NaT]

\* the gateway is not running
GateOff ==
  /\ spExists = FALSE
  /\ uniqueKey = FALSE
  /\ committed = <<>>
  /\ working = <<>>
  /\ tmp_at = <<>>
  /\ now = 1
  /\ pc = "off"
  /\ caller = "none"
  /\ mode = "none"
  /\ batch = <<>>
  /\ pos = 1
  /\ before = <<>>
  /\ outcome = "none"
  /\ cause = "none"
  /\ failedAt = "none"
  /\ exitcode = 0
  /\ persistidos_sql = 0
  /\ rerun = FALSE
  /\ firstOutcome = "none"
  /\ modeNamed = FALSE

InitPipeline ==
  /\ GateOff
  /\ AnaOff
  /\ \/ /\ \E a \in SeqsUpTo(RichRows, MaxRaw) : files = <<a, <<>>>>
        /\ cfg = NoFilter
     \/ /\ \E w \in SeqsUpTo(KeyRows, MaxRecs) : \E k \in 0..Len(w) :
             files = <<SubSeq(w, 1, k), SubSeq(w, k + 1, Len(w))>>
        /\ cfg \in {NoFilter, From(Day(2024, 1, 6))}
  /\ flow = "none"
  /\ ppc = "start"
  /\ order = <<>>
  /\ raw = <<>>
  /\ df = <<>>
  /\ metrics = NoMetrics
  /\ dups = 0
  /\ lidas = 0
  /\ records = <<>>

\* glob returns the files of a directory in the order the file system lists them
GlobOrders == {<<1, 2>>, <<2, 1>>}

\* load_all_data: glob, read_csv of each file, concat
fluxo_load_all_data ==
  /\ ppc = "start"
  /\ flow' = "agent"
  /\ \E ord \in GlobOrders :
       /\ order' = ord
       /\ raw' = Concat(files, ord)
  /\ ppc' = "loaded"
  /\ UNCHANGED <<gateVars, anaVars, files, cfg, df, metrics, dups, lidas, records>>

\* df, m = normalize_and_clean(raw)
fluxo_normalize_and_clean ==
  /\ ppc = "loaded"
  /\ df' = normalize_and_clean(raw).df
  /\ metrics' = normalize_and_clean(raw).metrics
  /\ ppc' = "normalized"
  /\ UNCHANGED <<gateVars, anaVars, files, cfg, flow, order, raw, dups, lidas, records>>

\* df = apply_filters(df, cfg)
fluxo_apply_filters ==
  /\ ppc = "normalized"
  /\ df' = apply_filters(df, cfg)
  /\ ppc' = "filtered"
  /\ UNCHANGED <<gateVars, anaVars, files, cfg, flow, order, raw, metrics, dups, lidas, records>>

\* df, dups = remove_duplicates(df)
fluxo_remove_duplicates ==
  /\ ppc = "filtered"
  /\ df' = remove_duplicates(df).df
  /\ dups' = remove_duplicates(df).removed
  /\ ppc' = "deduped"
  /\ UNCHANGED <<gateVars, anaVars, files, cfg, flow, order, raw, metrics, lidas, records>>

\* persist_to_sql_merge(df): rows
fluxo_persist_rows ==
  /\ ppc = "deduped"
  /\ records' = persist_rows(df)
  /\ ppc' = "staged"
  /\ UNCHANGED <<gateVars, anaVars, files, cfg, flow, order, raw, df, metrics, dups, lidas>>

\* sql_inserter.main: glob, read_table of each file
main_read ==
  /\ ppc = "start"
  /\ flow' = "inserter"
  /\ \E ord \in GlobOrders :
       /\ order' = ord
       /\ raw' = Concat(files, ord)
       /\ lidas' = Len(Concat(files, ord))
  /\ ppc' = "read"
  /\ UNCHANGED <<gateVars, anaVars, files, cfg, df, metrics, dups, records>>

\* sql_inserter.main: records
main_build ==
  /\ ppc = "read"
  /\ records' = main_records(raw)
  /\ ppc' = "built"
  /\ UNCHANGED <<gateVars, anaVars, files, cfg, flow, order, raw, df, metrics, dups, lidas>>

NextPipeline ==
  \/ fluxo_load_all_data
  \/ fluxo_normalize_and_clean
  \/ fluxo_apply_filters
  \/ fluxo_remove_duplicates
  \/ fluxo_persist_rows
  \/ main_read
  \/ main_build

Pipeline == InitPipeline /\ [][NextPipeline]_vars

(***************************************************************************)
(* Analytics: the dimension and the percentile flag (agent.py)             *)
(***************************************************************************)
\* a text cell with blanks around it
Padded(t) == [s |-> t, ws |-> TRUE]

\* Segmento of an enriched record: a segment, or NaN
Seg(t) == [na |-> FALSE, s |-> t]
NoSeg == [na |-> TRUE, s |-> ""]

\* load_dim_clientes: read_csv, ClienteId and Segmento as str, stripped
load_dim_clientes(csv) ==
  [j \in DOMAIN csv |->
     [ClienteId |-> strip(csv[j].ClienteId), Segmento |-> strip(csv[j].Segmento)]]

\* one row of the merge: the columns of the record, then Segmento
Enriched(r, sg) ==
  [idx |-> r.idx, Data |-> r.Data, ClienteId |-> strip(r.ClienteId),
   Procedimento |-> r.Procedimento, Receita |-> r.Receita, Segmento |-> sg]

\* merge_dim: d.merge(dm, on="ClienteId", how="left"), both keys stripped.
\* A left join keeps the order of the left rows; a left row gives one row for
\* every row of dm with its key, in the order of dm, and one row with a null
\* Segmento when dm has none
RECURSIVE merge_dim(_, _)
merge_dim(d, dm) ==
  IF d = <<>> THEN <<>>
  ELSE LET r == Head(d)
           hits == SelectSeq(dm, LAMBDA e : strip(e.ClienteId) = strip(r.ClienteId))
           out == IF hits = <<>> THEN <<Enriched(r, NoSeg)>>
                  ELSE [j \in DOMAIN hits |-> Enriched(r, Seg(hits[j].Segmento.s))]
       IN  out \o merge_dim(Tail(d), dm)

\* Series.sort_values
RECURSIVE Insert(_, _)
Insert(x, q) ==
  IF q = <<>> THEN <<x>>
  ELSE IF x <= Head(q) THEN <<x>> \o q
  ELSE <<Head(q)>> \o Insert(x, Tail(q))

RECURSIVE sort_values(_)
sort_values(q) == IF q = <<>> THEN <<>> ELSE Insert(Head(q), sort_values(Tail(q)))

\* the quantile taken at the order statistic below the position
quantile_lower(v) ==
  LET srt == sort_values(v)
      lo == ((Len(v) - 1) * 9) \div 10 + 1
  IN  10 * srt[lo]

\* Series.quantile(0.9), interpolation "linear", of a series that is not
\* empty, in tenths: the position (n - 1) * 0.9 among the sorted values, and
\* between the two order statistics around it in proportion to its fraction
quantile(v) ==
  LET srt == sort_values(v)
      h == (Len(v) - 1) * 9
      lo == h \div 10 + 1
      hi == IF lo < Len(v) THEN lo + 1 ELSE lo
  IN  10 * srt[lo] + (h % 10) * (srt[hi] - srt[lo])

\* compute_percentile_flag(df, "Receita", 0.9): v is Receita with 0 for NaN,
\* p90 is 0.0 for an empty frame, AltoValor is (v >= p90) as int
compute_percentile_flag(d) ==
  LET v == [i \in DOMAIN d |-> fillna0(d[i].Receita)]
      q == IF Len(d) > 0 THEN quantile(v) ELSE 0
  IN  [df |-> [i \in DOMAIN d |->
                 [idx |-> d[i].idx, Receita |-> d[i].Receita,
                  AltoValor |-> IF 10 * v[i] >= q THEN 1 ELSE 0]],
       p90 |-> q]

\* the rows of dim_clientes.csv
DimRows ==
  {[ClienteId |-> c, Segmento |-> sg] :
     c \in {Text("C1"), Padded("C1"), Text("C2")},
     sg \in {Text("Gold"), Text("Silver")}}

\* a frame as remove_duplicates leaves it: one record for each natural key,
\* here one for each day, with the customers cs and the revenues rs
Frame(cs, rs) ==
  [i \in DOMAIN cs |->
     [idx |-> i, Data |-> Day(2024, 1, i), ClienteId |-> Text(cs[i]),
      Procedimento |-> Text("ProcA"), Receita |-> Val(rs[i])]]

Ladder(n) == [i \in 1..n |-> 10 * i]
Same(x, n) == [i \in 1..n |-> x]

Revs == {0, 10, 20, 100}

InitAnalytics ==
  /\ GateOff
  /\ PipeOff
  /\ \/ /\ dim_csv \in SeqsUpTo(DimRows, MaxDim)
        /\ \E cs \in SeqsUpTo({"C1", "C2", "C3"}, MaxFrame) :
             base = Frame(cs, Same(10, Len(cs)))
     \/ /\ dim_csv \in {<<>>,
                        <<[ClienteId |-> Text("C1"), Segmento |-> Text("Gold")],
                          [ClienteId |-> Text("C1"), Segmento |-> Text("Silver")]>>}
        /\ \E rs \in SeqsUpTo(Revs, MaxRev) \cup {Ladder(n) : n \in 0..MaxLadder} :
             base = Frame(Same("C1", Len(rs)), rs)
  /\ dim = <<>>
  /\ enr = <<>>
  /\ p90 = 0
  /\ alto = <<>>
  /\ apc = "start"

\* dim = load_dim_clientes()
fluxo_load_dim_clientes ==
  /\ apc = "start"
  /\ dim' = load_dim_clientes(dim_csv)
  /\ apc' = "dim"
  /\ UNCHANGED <<gateVars, pipeVars, dim_csv, base, enr, p90, alto>>

\* df = merge_dim(df, dim)
fluxo_merge_dim ==
  /\ apc = "dim"
  /\ enr' = merge_dim(base, dim)
  /\ apc' = "merged"
  /\ UNCHANGED <<gateVars, pipeVars, dim_csv, dim, base, p90, alto>>

\* df, p90 = compute_percentile_flag(df, "Receita", 0.9)
fluxo_compute_percentile_flag ==
  /\ apc = "merged"
  /\ alto' = compute_percentile_flag(enr).df
  /\ p90' = compute_percentile_flag(enr).p90
  /\ apc' = "flagged"
  /\ UNCHANGED <<gateVars, pipeVars, dim_csv, dim, base, enr>>

NextAnalytics ==
  \/ fluxo_load_dim_clientes
  \/ fluxo_merge_dim
  \/ fluxo_compute_percentile_flag

Analytics == InitAnalytics /\ [][NextAnalytics]_vars

(***************************************************************************)
(* Properties of the persistence gateway                                   *)
(***************************************************************************)
\* a table without its LoadDate column
StripLoadDate(t) == [i \in DOMAIN t |-> [key |-> t[i].key, val |-> t[i].val]]

\* what a whole load of batch b in mode m leaves of table t
FullLoad(t, m, b, ts) ==
  IF m = "append" THEN t \o StampAll(b, ts)
  ELSE IF m = "truncate" THEN StampAll(b, ts)
  ELSE WhenMatched(t, b, ts) \o WhenNotMatched(t, b, ts)

\* C1: a merge run that repeats a committed merge run of the same batch leaves
\* the store with the same rows and the same non-timestamp values as the
\* first run left; only LoadDate may differ
C1_MergeIdempotent ==
  (pc = "done" /\ rerun /\ mode = "merge" /\ firstOutcome = "committed")
    => StripLoadDate(committed) = StripLoadDate(before)

\* C1 witness: the second merge of a two-row batch committed and refreshed
\* LoadDate over a store that also held a row before the first merge
C1_Witness ==
  /\ pc = "done" /\ rerun /\ mode = "merge" /\ caller = "inserter"
  /\ firstOutcome = "committed" /\ outcome = "committed"
  /\ Len(batch) >= 2
  /\ Len(committed) > Len(batch)
  /\ committed # before

\* C2: a run is all-or-nothing in every mode: nothing of an open transaction
\* is durable, a run that raised leaves the store as it was before the run,
\* and a run that committed leaves the whole load
C2_AllOrNothing ==
  /\ InTransaction => committed = before
  /\ (pc = "done" /\ outcome \in {"rolledback", "skipped"}) => committed = before
  /\ (pc = "done" /\ outcome = "committed") => committed = FullLoad(before, mode, batch, now)

\* C2 witness: an append met a colliding key after it had inserted a row, and
\* the run ended rolled back
C2_Witness ==
  /\ pc = "done" /\ outcome = "rolledback" /\ mode = "append"
  /\ cause = "dupkey" /\ failedAt = "insert" /\ pos > 1
  /\ before # <<>>

\* C3: every run whose persistence failed ends with the error propagated
\* (a non-zero exit status)
C3_FailureSurfaced ==
  (pc = "done" /\ outcome = "rolledback") => exitcode # 0

\* C4: a merge run against a store without app.sp_UpsertAtendimentos, with no
\* server fault, succeeds whenever the routine would have, and leaves the
\* state the routine would have left
C4_FallbackWhenNoRoutine ==
  (pc = "done" /\ mode = "merge" /\ outcome # "skipped" /\ cause # "fault" /\ ~spExists)
    => LET r == sp_UpsertAtendimentos(before, batch, now)
       IN  r.ok => (outcome = "committed" /\ committed = r.table)

(***************************************************************************)
(* Properties of the pipeline                                              *)
(***************************************************************************)
\* the date cells of the inputs that name a day of the calendar, and the day
ValidDateCells == {Dash(2024, 1, 5), Dash(2024, 1, 6)}
DayOfCell(v) == Day(v.a, v.b, v.c)

\* the rows read whose date cell names a day, in the order read
Survivors == SelectSeq(raw, LAMBDA r : r.Data \in ValidDateCells)

\* the frame remove_duplicates was given
PreDedup == apply_filters(normalize_and_clean(raw).df, cfg)

LastOfKey(frame, i) ==
  CHOOSE j \in DOMAIN frame :
    /\ SameKey(frame[j], frame[i])
    /\ \A l \in DOMAIN frame : SameKey(frame[l], frame[i]) => l <= j

\* C5: remove_duplicates keeps of every natural-key group exactly one record,
\* the one last in input order; the survivors keep their relative order; and
\* duplicates_removed is the input count minus the output count
C5_LastWriteWins ==
  ppc = "deduped" =>
    /\ \A i \in DOMAIN PreDedup :
         /\ Cardinality({o \in DOMAIN df : SameKey(df[o], PreDedup[i])}) = 1
         /\ \E o \in DOMAIN df : df[o] = PreDedup[LastOfKey(PreDedup, i)]
    /\ \A o \in DOMAIN df : \E i \in DOMAIN PreDedup : df[o] = PreDedup[i]
    /\ \A o1, o2 \in DOMAIN df : o1 < o2 => df[o1].idx < df[o2].idx
    /\ dups = Len(PreDedup) - Len(df)

\* C5 witness: key (2024-01-05, C1, ProcA) with quantity 2 then 3, price 10,
\* no revenue: one record, quantity 3, revenue 30
C5_Witness ==
  /\ ppc = "deduped"
  /\ Len(raw) = 2
  /\ \A i \in DOMAIN raw : raw[i].Data = Dash(2024, 1, 5) /\ raw[i].PrecoUnitario = Num(10)
                              /\ raw[i].Receita = Empty
  /\ raw[1].Qtde = Num(2) /\ raw[2].Qtde = Num(3)
  /\ Len(df) = 1
  /\ df[1].idx = 2 /\ df[1].Qtde = Val(3) /\ df[1].PrecoUnitario = Val(10)
  /\ df[1].Receita = Val(30)
  /\ dups = 1

\* C6: remove_duplicates applied to its own output returns the same records
\* in the same order and removes none
C6_DedupIdempotent ==
  ppc = "deduped" => remove_duplicates(df) = [df |-> df, removed |-> 0]

\* C6 witness: three rows of one key went in, one record came out
C6_Witness ==
  /\ ppc = "deduped"
  /\ dups = 2
  /\ Len(df) = 1

\* C7: a row whose date is missing or is no calendar date yields no record,
\* every row with a valid date yields one carrying that date, and
\* invalid_dates counts the rows dropped: rows in = rows out + invalid_dates
C7_InvalidDatesDropped ==
  /\ (flow = "agent" /\ ppc = "normalized") =>
        LET bad == {i \in DOMAIN raw : raw[i].Data \notin ValidDateCells}
        IN  /\ metrics.invalid_dates = Cardinality(bad)
            /\ {df[o].idx : o \in DOMAIN df} = DOMAIN raw \ bad
            /\ Len(raw) = Len(df) + metrics.invalid_dates
            /\ \A o \in DOMAIN df : df[o].Data = DayOfCell(raw[df[o].idx].Data)
  /\ (flow = "inserter" /\ ppc = "built") =>
        /\ lidas = Len(raw)
        /\ Len(records) = Len(Survivors)
        /\ \A j \in DOMAIN records : records[j].Data = DayOfCell(Survivors[j].Data)

\* C7 witness: "31/02/2024" was dropped and counted, the row after it emitted
C7_Witness ==
  /\ flow = "agent" /\ ppc = "normalized"
  /\ Len(raw) = 2
  /\ raw[1].Data = Slash(31, 2, 2024)
  /\ metrics.invalid_dates = 1
  /\ Len(df) = 1 /\ df[1].idx = 2

NonNegative(v) == ~v.na /\ v.n >= 0
NullOrNonNegative(v) == v.na \/ v.n >= 0
\* what clamping makes of a source cell: null when not numeric, 0 when negative
Clamped(cell) ==
  IF cell.k # "num" THEN NaN ELSE IF cell.n < 0 THEN Val(0) ELSE Val(cell.n)
NegativeCell(cell) == cell.k = "num" /\ cell.n < 0

\* the counters of the clamped rows, and the rows handed to persistence
C8_CountersAndStaged ==
  /\ (flow = "agent" /\ ppc = "normalized") =>
        /\ metrics.neg_qtde =
             Cardinality({o \in DOMAIN df : NegativeCell(raw[df[o].idx].Qtde)})
        /\ metrics.neg_preco =
             Cardinality({o \in DOMAIN df : NegativeCell(raw[df[o].idx].PrecoUnitario)})
  /\ ppc \in {"staged", "built"} =>
        \A j \in DOMAIN records : records[j].Qtde >= 0 /\ records[j].PrecoUnitario >= 0
  /\ (flow = "inserter" /\ ppc = "built") =>
        \A j \in DOMAIN records :
          /\ NegativeCell(Survivors[j].Qtde) => records[j].Qtde = 0
          /\ NegativeCell(Survivors[j].PrecoUnitario) => records[j].PrecoUnitario = 0

\* C8 as claimed: every record the Normalizer emits and every row staged has
\* quantity >= 0 and unit price >= 0, whatever the source held
C8_AlwaysNonNegative ==
  /\ (flow = "agent" /\ ppc = "normalized") =>
        \A o \in DOMAIN df : NonNegative(df[o].Qtde) /\ NonNegative(df[o].PrecoUnitario)
  /\ C8_CountersAndStaged

\* C8 amended: a record normalize_and_clean emits has quantity and unit price
\* null (source missing or not numeric) or >= 0, a negative source becomes 0;
\* every row staged for persistence has both >= 0; the counters count the
\* surviving rows clamped
C8_NeverNegative ==
  /\ (flow = "agent" /\ ppc = "normalized") =>
        \A o \in DOMAIN df :
          /\ NullOrNonNegative(df[o].Qtde) /\ NullOrNonNegative(df[o].PrecoUnitario)
          /\ df[o].Qtde = Clamped(raw[df[o].idx].Qtde)
          /\ df[o].PrecoUnitario = Clamped(raw[df[o].idx].PrecoUnitario)
  /\ C8_CountersAndStaged

\* C8 witness: of two rows with quantity -5 and price -1 the one with a valid
\* date was emitted with 0 and 0 and counted, the other dropped uncounted
C8_Witness ==
  /\ flow = "agent" /\ ppc = "normalized"
  /\ Len(raw) = 2
  /\ \A i \in DOMAIN raw : raw[i].Qtde = Num(-5) /\ raw[i].PrecoUnitario = Num(-1)
  /\ metrics = [invalid_dates |-> 1, neg_qtde |-> 1, neg_preco |-> 1]
  /\ Len(df) = 1 /\ df[1].Qtde = Val(0) /\ df[1].PrecoUnitario = Val(0)

\* C9: a record whose source revenue is absent (empty, or not numeric) has
\* revenue = quantity x unit price, nulls as 0; one whose source revenue is
\* numeric keeps it; in normalize_and_clean and in sql_inserter.main
C9_RevenueDerived ==
  /\ (flow = "agent" /\ ppc = "normalized") =>
        \A o \in DOMAIN df :
          LET src == raw[df[o].idx].Receita
          IN  df[o].Receita =
                IF src.k = "num" THEN Val(src.n)
                ELSE Val(fillna0(df[o].Qtde) * fillna0(df[o].PrecoUnitario))
  /\ (flow = "inserter" /\ ppc = "built") =>
        \A j \in DOMAIN records :
          LET src == Survivors[j].Receita
          IN  records[j].Receita =
                IF src.k = "num" THEN src.n
                ELSE records[j].Qtde * records[j].PrecoUnitario

\* the files in path order
PathOrder == <<1, 2>>

WithoutIdx(r) ==
  [Data |-> r.Data, ClienteId |-> r.ClienteId, Procedimento |-> r.Procedimento,
   Qtde |-> r.Qtde, PrecoUnitario |-> r.PrecoUnitario, Receita |-> r.Receita]

InPathOrder ==
  remove_duplicates(
    apply_filters(normalize_and_clean(Concat(files, PathOrder)).df, cfg)).df

\* C10: whatever order glob lists the files in, the deduplicated records are
\* those of the files concatenated in path order
C10_OrderIndependent ==
  (flow = "agent" /\ ppc = "deduped") =>
    {WithoutIdx(df[o]) : o \in DOMAIN df}
      = {WithoutIdx(InPathOrder[o]) : o \in DOMAIN InPathOrder}

(***************************************************************************)
(* Properties of the analytics                                             *)
(***************************************************************************)
\* the entries of dim_clientes.csv for a customer, in file order
EntriesOf(c) == SelectSeq(dim_csv, LAMBDA e : e.ClienteId.s = c.s)

\* the segment of the first entry of the customer, or null
FirstSegment(c) ==
  IF EntriesOf(c) = <<>> THEN NoSeg ELSE Seg(Head(EntriesOf(c)).Segmento.s)

\* C11: merge_dim returns exactly one enriched record for each input record,
\* in input order; a customer without a dimension entry keeps a null segment;
\* a customer with several entries gets the segment of the first in file order
C11_OneToOneJoin ==
  apc \in {"merged", "flagged"} =>
    /\ Len(enr) = Len(base)
    /\ \A i \in DOMAIN base : enr[i] = Enriched(base[i], FirstSegment(base[i].ClienteId))

\* the revenues compute_percentile_flag was given
Revenues == [i \in DOMAIN enr |-> fillna0(enr[i].Receita)]

\* the k-th smallest revenue: fewer than k revenues lie below it and at least
\* k do not lie above it
AtRank(k) ==
  CHOOSE x \in {Revenues[i] : i \in DOMAIN Revenues} :
    /\ Cardinality({i \in DOMAIN Revenues : Revenues[i] < x}) < k
    /\ Cardinality({i \in DOMAIN Revenues : Revenues[i] <= x}) >= k

\* the 90th percentile by linear interpolation between order statistics, in
\* tenths: rank 1 + 0.9 (n - 1)
Interpolated90 ==
  LET n == Len(Revenues)
      h == (n - 1) * 9
      k == h \div 10 + 1
      below == AtRank(k)
      above == AtRank(IF k < n THEN k + 1 ELSE k)
  IN  10 * below + (h % 10) * (above - below)

Flagged == {i \in DOMAIN alto : alto[i].AltoValor = 1}

\* C13: compute_percentile_flag flags a record if and only if its revenue is
\* at least the 90th percentile of the revenues of the whole frame, taken by
\* linear interpolation between order statistics; an empty frame gives
\* percentile 0 and no flag; revenues 10, 20, ..., 100 give percentile 91 and
\* flag exactly the record of revenue 100
C13_PercentileFlag ==
  apc = "flagged" =>
    /\ Len(alto) = Len(enr)
    /\ p90 = IF enr = <<>> THEN 0 ELSE Interpolated90
    /\ Flagged = {i \in DOMAIN enr : 10 * Revenues[i] >= p90}
    /\ \A i \in DOMAIN alto : alto[i].AltoValor \in {0, 1} /\ alto[i].idx = enr[i].idx
    /\ enr = <<>> => Flagged = {}
    /\ Revenues = Ladder(10) => (p90 = 910 /\ Flagged = {10})

\* C13 witness: the revenues 10, 20, ..., 100 were flagged: percentile 91, the
\* record of revenue 100 alone
C13_Witness ==
  /\ apc = "flagged"
  /\ Revenues = Ladder(10)
  /\ p90 = 910
  /\ Flagged = {10}
  /\ alto[10].Receita = Val(100)

(***************************************************************************)
(* Further properties of the persistence gateway                           *)
(***************************************************************************)
\* C12: a run for which neither the command line nor the configuration names
\* a load mode performs the merge
C12_DefaultIsMerge ==
  (pc = "done" /\ outcome = "committed" /\ ~modeNamed) => mode = "merge"

(***************************************************************************)
(* Further properties of the pipeline                                      *)
(***************************************************************************)
\* C14: the rows handed to the persistence gateway, by fluxo_atualizar_tudo
\* and by sql_inserter.main, hold at most one record for each natural key
C14_OneRecordPerKey ==
  ppc \in {"staged", "built"} =>
    \A i, j \in DOMAIN records : SameKey(records[i], records[j]) => i = j

(***************************************************************************)
(* The frame of a merge                                                    *)
(***************************************************************************)
KeySet(t) == {t[i].key : i \in DOMAIN t}
RowsOfKey(t, k) == Cardinality({i \in DOMAIN t : t[i].key = k})
Copies(t, r) == Cardinality({i \in DOMAIN t : t[i] = r})

\* C15: a committed merge only inserts and updates: every row whose natural
\* key is not in the batch is still there with all its attributes and its
\* LoadDate, no row is deleted, the rows the store held keep their key, and
\* the keys of the store are those it had together with those of the batch
C15_MergeFrame ==
  (pc = "done" /\ outcome = "committed" /\ mode = "merge") =>
    /\ \A i \in DOMAIN before :
         ~HasKey(batch, before[i].key) =>
            Copies(committed, before[i]) = Copies(before, before[i])
    /\ Len(committed) >= Len(before)
    /\ \A k \in Keys : RowsOfKey(committed, k) >= RowsOfKey(before, k)
    /\ \A i \in DOMAIN before : committed[i].key = before[i].key
    /\ KeySet(committed) = KeySet(before) \cup KeySet(batch)

\* C15 witness: a merge committed over a store holding a row the batch
\* matched and a row it did not
C15_Witness ==
  /\ pc = "done" /\ outcome = "committed" /\ mode = "merge" /\ ~rerun
  /\ \E i \in DOMAIN before : ~HasKey(batch, before[i].key)
  /\ \E i \in DOMAIN before : HasKey(batch, before[i].key)
  /\ committed # before

(***************************************************************************)
(* The audit counter                                                       *)
(***************************************************************************)
\* the rows of the store that the current run wrote
WrittenNow(t) == Cardinality({i \in DOMAIN t : t[i].ld = now})

\* C16: in fluxo_atualizar_tudo the audit counter persistidos_sql is the
\* size of the staged batch if and only if the transaction committed, and 0
\* while nothing is committed and when persistence was skipped or rolled
\* back; over a store keyed by the natural key it is the number of rows the
\* run wrote
C16_AuditCounter ==
  caller = "agent" =>
    /\ outcome # "committed" => persistidos_sql = 0
    /\ outcome = "committed" =>
         /\ batch # <<>>
         /\ persistidos_sql = Len(batch)
         /\ KeysDistinct(before) => persistidos_sql = WrittenNow(committed)
    /\ outcome \in {"rolledback", "skipped", "none"} => WrittenNow(committed) = 0

\* C16 witness: a full refresh whose persistence was rolled back with counter
\* 0 was run again and committed its two staged rows
C16_Witness ==
  /\ caller = "agent" /\ pc = "done" /\ rerun
  /\ firstOutcome = "rolledback" /\ outcome = "committed"
  /\ Len(batch) = 2
  /\ persistidos_sql = 2
  /\ WrittenNow(committed) = 2

=============================================================================
